---- MODULE Spec2Model ----
(***************************************************************************)
(* Model of the RemNote MCP bridge.                                        *)
(*                                                                         *)
(* Server (server/src/index.ts): the PluginConnectionManager with the      *)
(* tracked websocket connections, the active connection, the table of      *)
(* pending requests with their deadline timers, the callers' promises and  *)
(* the heartbeat.                                                          *)
(*                                                                         *)
(* Plugin (plugin index.ts): connectionState, handleRequest, activation    *)
(* and deactivation, and the reconnecting WebSocketClient it drives.       *)
(*                                                                         *)
(* Node and the browser run every handler to completion, so each handler   *)
(* is one atomic action; an `await` ends the action.                       *)
(***************************************************************************)
EXTENDS Integers, Sequences, FiniteSets, TLC

\* ------------------------------------------------------------------ bounds
MaxConns == 2
MaxCalls == 2
\* heartbeat rounds that reach a connection
MaxPings == 1
\* frames the plugin receives
MaxRequests == 2
\* closed or replaced sockets whose close event is still to come
MaxStale == 1
\* connections registered before the closes whose promotion is examined
MaxTracked == 3
\* addLog calls of a plugin session
MaxLogged == 120
\* SSE sessions opened by MCP clients
MaxSessions == 2

\* ------------------------------------------------------- values of the code
\* `null` of activeConnectionId; connection and request ids are 1, 2, ...
NULL == 0
\* a property that is absent from a JSON envelope (`undefined` in JS)
Undefined == "undefined"
\* bridge actions the tool handlers dispatch
Actions == {"create_note"}
\* values a response envelope's `result` may carry
Results == {"ra", "rb"}
\* values a response envelope's `error` may carry
Errors == {"", "boom"}
\* BridgeResponse envelopes a plugin may send: a result or an error, under any id
\* (at most MaxCalls ids are issued, so id MaxCalls + 1 is never issued)
Responses ==
  [id : 1..(MaxCalls + 1), result : Results, error : {Undefined}] \cup
  [id : 1..(MaxCalls + 1), result : {Undefined}, error : Errors]
\* raw frames arriving on a socket: JSON text of a response, or text that does not parse
Frames == [json : {TRUE}, message : Responses] \cup {[json |-> FALSE]}

\* a configuration with one more reconnect attempt
maxReconnectAttempts_more == 10 + 1
\* a configuration that starts the backoff at twice the delay
initialReconnectDelay_double == 2 * 1000
\* a configuration with twice the backoff ceiling
maxReconnectDelay_double == 2 * 30000

\* the configuration the plugin constructs its WebSocketClient with
maxReconnectAttempts == 10
initialReconnectDelay == 1000
maxReconnectDelay == 30000
\* the number of log entries connectionState.logs keeps
LogLimit == 50
\* the actions handleRequest has a case for
KnownActions ==
  {"create_note", "append_journal", "search", "read_note", "update_note", "get_status"}
\* the actions of the requests the plugin is sent: one that is counted, one that is
\* not, and one handleRequest has no case for
PluginActions == {"create_note", "read_note", "bogus"}
\* frames arriving at the plugin: JSON text of a request, or text that does not parse
PluginFrames == [json : {TRUE}, action : PluginActions] \cup {[json |-> FALSE]}
\* how a RemAdapter call ends: it returns a value or it throws
AdapterOutcomes ==
  {[ok |-> TRUE, value |-> "note"], [ok |-> FALSE, message |-> "adapter failed"]}

VARIABLES
  connections,        \* Map<string, WebSocket>: the keys, in insertion order
  readyState,         \* readyState of each WebSocket ever accepted
  activeConnectionId, \* string | null
  pendingRequests,    \* Map<string, PendingRequest>
  timers,             \* deadline timers that are armed (setTimeout, not yet fired or cleared)
  calls,              \* history: every sendRequest call, with each invocation of its resolve/reject
  sent,               \* history: the envelopes written to each WebSocket, in order
  connCount,          \* connection ids generated so far
  reqCount,           \* request ids generated so far
  last                \* history: the handler that ran last (op), the connection it
                      \* registered, closed or wrote to (conn), the request id it
                      \* handled (id), and whether it took its main branch (hit)

\* the plugin (plugin index.ts and its WebSocketClient), the other end of a connection
VARIABLES
  wsClient,           \* `wsClient` is not null
  remAdapter,         \* `remAdapter` is not null
  connectionState,    \* the exported connectionState: status, stats, logs
  client,             \* the WebSocketClient instance: status, attempts (attempt count),
                      \* delay (current backoff delay), timer (delays of the reconnects
                      \* that are scheduled), stopped (disconnect() was called and
                      \* connect() has not been since), socket (the connection handle)
  stale,              \* sockets the client closed or replaced, their close event not yet delivered
  received,           \* frames received so far; the n-th request has id n
  inflight,           \* handler invocations awaiting their RemAdapter call: the request
                      \* (id, action) and the socket it arrived on
  scheduled,          \* history: the delays of the reconnects scheduled since the last open
  logged,             \* history: the message of every addLog call so far, in order
  plast               \* history: the plugin-side handler that ran last (op), whether
                      \* it was an automatic connection attempt (auto), and the
                      \* responses it wrote (reply)

\* the HTTP side of the server: the SSE sessions of the MCP clients
VARIABLES
  transports,         \* Map<string, SSEServerTransport>: the session ids that are keys
  sessions,           \* every SSE transport ever created: "none" before, then "starting"
                      \* (connect awaited), "open", "failed" (establishing threw), "closed"
  sseCount,           \* session ids generated so far
  slast               \* history: the HTTP handler that ran last (op), the session id it
                      \* was about (session), the status it answered with (status, 0 if
                      \* none) and the transport the message was handed to (delivered)

managerVars == <<connections, readyState, activeConnectionId, pendingRequests, timers,
                 calls, sent, connCount, reqCount, last>>

pluginVars == <<wsClient, remAdapter, connectionState, client, stale, received,
                inflight, scheduled, logged, plast>>

sseVars == <<transports, sessions, sseCount, slast>>

vars == <<managerVars, pluginVars, sseVars>>

\* ------------------------------------------------------------------ helpers
Range(s) == {s[i] : i \in 1..Len(s)}

\* Map.delete(key)
MapDelete(m, key) == [k \in DOMAIN m \ {key} |-> m[k]]

\* Map.set(key, value)
MapSet(m, key, value) == [k \in DOMAIN m \cup {key} |-> IF k = key THEN value ELSE m[k]]

\* uuidv4(): a fresh identifier, the n-th one generated
uuidv4(n) == n + 1

\* JS truthiness of an optional string
Truthy(v) == v # Undefined /\ v # ""

\* invoking the resolve/reject continuation of call k with an outcome
Settle(cs, k, outcome) == [cs EXCEPT ![k].settle = Append(@, outcome)]

\* the plugin before it is activated: no client, no adapter, empty session state
PluginInit ==
  /\ wsClient = FALSE
  /\ remAdapter = FALSE
  /\ connectionState =
       [status |-> "disconnected",
        stats |-> [created |-> 0, updated |-> 0, journal |-> 0, searches |-> 0],
        logs |-> <<>>]
  /\ client = [status |-> "disconnected", attempts |-> 0, delay |-> initialReconnectDelay,
               timer |-> {}, stopped |-> FALSE, socket |-> NULL]
  /\ stale = {}
  /\ received = 0
  /\ inflight = {}
  /\ scheduled = <<>>
  /\ logged = <<>>
  /\ plast = [op |-> "init", auto |-> FALSE, reply |-> <<>>]

\* no SSE session yet: `const transports = new Map()`
SseInit ==
  /\ transports = {}
  /\ sessions = [s \in 1..MaxSessions |-> "none"]
  /\ sseCount = 0
  /\ slast = [op |-> "init", session |-> NULL, status |-> 0, delivered |-> NULL]

\* the state after construction: the manager's field initialisers and an idle plugin
Init ==
  /\ connections = <<>>
  /\ readyState = [c \in 1..MaxConns |-> "NONE"]
  /\ activeConnectionId = NULL
  /\ pendingRequests = <<>>
  /\ timers = {}
  /\ calls = <<>>
  /\ sent = [c \in 1..MaxConns |-> <<>>]
  /\ connCount = 0
  /\ reqCount = 0
  /\ last = [op |-> "init", conn |-> NULL, id |-> NULL, hit |-> FALSE]
  /\ PluginInit
  /\ SseInit

\* ------------------------------------------------------------ addConnection
\* a registration that never makes the new connection active
firstActive_never(current, connectionId) == current

\* a registration that always makes the new connection the active one
firstActive_always(current, connectionId) == connectionId

\* "set as active if first connection": the active id after a registration
firstActive(current, connectionId) == IF current = NULL THEN connectionId ELSE current

\* wss.on('connection') -> addConnection(ws)
addConnection ==
  /\ connCount < MaxConns
  /\ LET connectionId == uuidv4(connCount) IN
     /\ connCount' = connCount + 1
     /\ connections' = Append(connections, connectionId)
     /\ readyState' = [readyState EXCEPT ![connectionId] = "OPEN"]
     /\ activeConnectionId' = firstActive(activeConnectionId, connectionId)
     /\ sent' = [sent EXCEPT ![connectionId] =
                   Append(@, [type |-> "connected", connectionId |-> connectionId])]
     /\ last' = [op |-> "addConnection", conn |-> connectionId, id |-> NULL,
                 hit |-> activeConnectionId = NULL]
     /\ UNCHANGED <<pendingRequests, timers, calls, reqCount>>

\* the socket leaves OPEN (closing handshake begun) before its 'close' event is emitted
wsClosing(c) ==
  /\ c \in Range(connections)
  /\ readyState[c] = "OPEN"
  /\ readyState' = [readyState EXCEPT ![c] = "CLOSING"]
  /\ last' = [op |-> "closing", conn |-> c, id |-> NULL, hit |-> FALSE]
  /\ UNCHANGED <<connections, activeConnectionId, pendingRequests, timers, calls,
                 sent, connCount, reqCount>>

\* a close handler that promotes nobody: the bridge stays without an active
\* connection although others are still tracked
promote_none(remaining) == NULL

\* a close handler that promotes the connection registered last
promote_last(remaining) == IF Len(remaining) > 0 THEN remaining[Len(remaining)] ELSE NULL

\* the connection that becomes active when the active one closes
promote(remaining) == IF Len(remaining) > 0 THEN remaining[1] ELSE NULL

\* a close handler that also rejects the calls still pending on the closed connection
onClose_failPending(c) ==
  /\ c \in Range(connections)
  /\ LET remaining == SelectSeq(connections, LAMBDA x : x # c)
         lost == {k \in 1..Len(calls) :
                    calls[k].conn = c /\ calls[k].id \in DOMAIN pendingRequests} IN
     /\ connections' = remaining
     /\ activeConnectionId' =
          IF activeConnectionId = c THEN promote(remaining) ELSE activeConnectionId
     /\ calls' = [k \in 1..Len(calls) |->
                   IF k \in lost
                   THEN [calls[k] EXCEPT !.settle =
                           Append(@, [kind |-> "Closed", value |-> Undefined, via |-> NULL])]
                   ELSE calls[k]]
     /\ pendingRequests' = [id \in DOMAIN pendingRequests \ {calls[k].id : k \in lost}
                              |-> pendingRequests[id]]
     /\ timers' = {t \in timers : t.reject \notin lost}
  /\ readyState' = [readyState EXCEPT ![c] = "CLOSED"]
  /\ last' = [op |-> "close", conn |-> c, id |-> NULL, hit |-> activeConnectionId = c]
  /\ UNCHANGED <<sent, connCount, reqCount>>

\* a close handler that gives up the active connection whenever any other
\* connection closes
onClose_dropActive(c) ==
  /\ c \in Range(connections)
  /\ LET remaining == SelectSeq(connections, LAMBDA x : x # c) IN
     /\ connections' = remaining
     /\ activeConnectionId' = IF activeConnectionId = c THEN promote(remaining) ELSE NULL
  /\ readyState' = [readyState EXCEPT ![c] = "CLOSED"]
  /\ last' = [op |-> "close", conn |-> c, id |-> NULL, hit |-> activeConnectionId = c]
  /\ UNCHANGED <<pendingRequests, timers, calls, sent, connCount, reqCount>>

\* ws.on('close') handler of connection c
onClose(c) ==
  /\ c \in Range(connections)
  /\ LET remaining == SelectSeq(connections, LAMBDA x : x # c) IN
     /\ connections' = remaining
     /\ activeConnectionId' =
          IF activeConnectionId = c THEN promote(remaining) ELSE activeConnectionId
  /\ readyState' = [readyState EXCEPT ![c] = "CLOSED"]
  /\ last' = [op |-> "close", conn |-> c, id |-> NULL, hit |-> activeConnectionId = c]
  /\ UNCHANGED <<pendingRequests, timers, calls, sent, connCount, reqCount>>

\* ------------------------------------------------------ hasActiveConnection
\* a check that reports an active connection whether or not there is one
hasActiveConnection_always == TRUE

hasActiveConnection ==
  activeConnectionId # NULL /\ activeConnectionId \in Range(connections)

\* -------------------------------------------------------------- sendRequest
\* the BridgeRequest written to the plugin
BridgeRequest(requestId, action) ==
  [id |-> requestId, action |-> action, payload |-> "payload"]

\* the PendingRequest stored for call k: its continuations and its timer handle
PendingRequest(k, requestId) ==
  [resolve |-> k, reject |-> k, timeout |-> [requestId |-> requestId, reject |-> k]]

\* a sendRequest that never arms the deadline timer
armTimeout_never(ts, timeout) == ts

\* setTimeout(..., REQUEST_TIMEOUT_MS): the deadline timer of the request is armed
armTimeout(ts, timeout) == ts \cup {timeout}

\* an else branch that leaves the deadline timer armed
notReadyTimers_noClear(ts, timeout) == ts

\* the else branch of the send: clearTimeout(timeout)
notReadyTimers(ts, timeout) == ts \ {timeout}

\* an else branch that leaves the entry of the failed request in the table
notReadyPending_keep(pr, requestId) == pr

\* the else branch of the send: pendingRequests.delete(requestId)
notReadyPending(pr, requestId) == MapDelete(pr, requestId)

\* the `ws && ws.readyState === WebSocket.OPEN` test of the send
writable(ws) == ws \in Range(connections) /\ readyState[ws] = "OPEN"

\* a sendRequest that puts its envelope ahead of what was written before
sendRequest_prepend(action) ==
  /\ Len(calls) < MaxCalls
  /\ LET k == Len(calls) + 1 IN
     IF ~hasActiveConnection
     THEN /\ calls' = Append(calls, [action |-> action, id |-> NULL, conn |-> NULL,
                 settle |-> <<[kind |-> "NoActiveConnection", value |-> Undefined, via |-> NULL]>>])
          /\ last' = [op |-> "sendRequest", conn |-> NULL, id |-> NULL, hit |-> FALSE]
          /\ UNCHANGED <<pendingRequests, timers, sent, reqCount>>
     ELSE LET requestId == uuidv4(reqCount)
              request   == BridgeRequest(requestId, action)
              entry     == PendingRequest(k, requestId)
              armed     == armTimeout(timers, entry.timeout)
              stored    == MapSet(pendingRequests, requestId, entry)
              ws        == activeConnectionId
          IN
          /\ reqCount' = reqCount + 1
          /\ IF writable(ws)
             THEN /\ sent' = [sent EXCEPT ![ws] = <<request>> \o @]
                  /\ timers' = armed
                  /\ pendingRequests' = stored
                  /\ calls' = Append(calls, [action |-> action, id |-> requestId,
                                             conn |-> ws, settle |-> <<>>])
                  /\ last' = [op |-> "sendRequest", conn |-> ws, id |-> requestId, hit |-> TRUE]
             ELSE /\ timers' = notReadyTimers(armed, entry.timeout)
                  /\ pendingRequests' = notReadyPending(stored, requestId)
                  /\ calls' = Append(calls, [action |-> action, id |-> requestId, conn |-> NULL,
                       settle |-> <<[kind |-> "TransportNotReady", value |-> Undefined, via |-> NULL]>>])
                  /\ last' = [op |-> "sendRequest", conn |-> ws, id |-> requestId, hit |-> FALSE]
                  /\ UNCHANGED sent
  /\ UNCHANGED <<connections, readyState, activeConnectionId, connCount>>

\* sendRequest(action, payload): the guard, then the Promise executor (both synchronous)
sendRequest(action) ==
  /\ Len(calls) < MaxCalls
  /\ LET k == Len(calls) + 1 IN
     IF ~hasActiveConnection
     THEN /\ calls' = Append(calls, [action |-> action, id |-> NULL, conn |-> NULL,
                 settle |-> <<[kind |-> "NoActiveConnection", value |-> Undefined, via |-> NULL]>>])
          /\ last' = [op |-> "sendRequest", conn |-> NULL, id |-> NULL, hit |-> FALSE]
          /\ UNCHANGED <<pendingRequests, timers, sent, reqCount>>
     ELSE LET requestId == uuidv4(reqCount)
              request   == BridgeRequest(requestId, action)
              entry     == PendingRequest(k, requestId)
              armed     == armTimeout(timers, entry.timeout)
              stored    == MapSet(pendingRequests, requestId, entry)
              ws        == activeConnectionId
          IN
          /\ reqCount' = reqCount + 1
          /\ IF writable(ws)
             THEN /\ sent' = [sent EXCEPT ![ws] = Append(@, request)]
                  /\ timers' = armed
                  /\ pendingRequests' = stored
                  /\ calls' = Append(calls, [action |-> action, id |-> requestId,
                                             conn |-> ws, settle |-> <<>>])
                  /\ last' = [op |-> "sendRequest", conn |-> ws, id |-> requestId, hit |-> TRUE]
             ELSE /\ timers' = notReadyTimers(armed, entry.timeout)
                  /\ pendingRequests' = notReadyPending(stored, requestId)
                  /\ calls' = Append(calls, [action |-> action, id |-> requestId, conn |-> NULL,
                       settle |-> <<[kind |-> "TransportNotReady", value |-> Undefined, via |-> NULL]>>])
                  /\ last' = [op |-> "sendRequest", conn |-> ws, id |-> requestId, hit |-> FALSE]
                  /\ UNCHANGED sent
  /\ UNCHANGED <<connections, readyState, activeConnectionId, connCount>>

\* a timeout callback that rejects without pendingRequests.delete(requestId)
onTimeout_noDelete(t) ==
  /\ t \in timers
  /\ timers' = timers \ {t}
  /\ pendingRequests' = pendingRequests
  /\ calls' = Settle(calls, t.reject, [kind |-> "Timeout", value |-> Undefined, via |-> NULL])
  /\ last' = [op |-> "timeout", conn |-> NULL, id |-> t.requestId, hit |-> TRUE]
  /\ UNCHANGED <<connections, readyState, activeConnectionId, sent, connCount, reqCount>>

\* a timeout callback that writes the request once more before giving up
onTimeout_resend(t) ==
  /\ t \in timers
  /\ timers' = timers \ {t}
  /\ pendingRequests' = MapDelete(pendingRequests, t.requestId)
  /\ calls' = Settle(calls, t.reject, [kind |-> "Timeout", value |-> Undefined, via |-> NULL])
  /\ sent' = IF writable(activeConnectionId)
             THEN [sent EXCEPT ![activeConnectionId] =
                     Append(@, BridgeRequest(t.requestId, calls[t.reject].action))]
             ELSE sent
  /\ last' = [op |-> "timeout", conn |-> NULL, id |-> t.requestId, hit |-> TRUE]
  /\ UNCHANGED <<connections, readyState, activeConnectionId, connCount, reqCount>>

\* the setTimeout callback of a pending request: the deadline elapsed
onTimeout(t) ==
  /\ t \in timers
  /\ timers' = timers \ {t}
  /\ pendingRequests' = MapDelete(pendingRequests, t.requestId)
  /\ calls' = Settle(calls, t.reject, [kind |-> "Timeout", value |-> Undefined, via |-> NULL])
  /\ last' = [op |-> "timeout", conn |-> NULL, id |-> t.requestId, hit |-> TRUE]
  /\ UNCHANGED <<connections, readyState, activeConnectionId, sent, connCount, reqCount>>

\* ----------------------------------------------------------- handleResponse
\* a handleResponse that forgets clearTimeout(pending.timeout)
handleResponse_noClear(response) ==
  IF response.id \notin DOMAIN pendingRequests
  THEN UNCHANGED <<pendingRequests, timers, calls>>
  ELSE LET pending == pendingRequests[response.id] IN
       /\ timers' = timers
       /\ pendingRequests' = MapDelete(pendingRequests, response.id)
       /\ calls' =
            IF Truthy(response.error)
            THEN Settle(calls, pending.reject,
                        [kind |-> "RemoteError", value |-> response.error, via |-> response.id])
            ELSE Settle(calls, pending.resolve,
                        [kind |-> "result", value |-> response.result, via |-> response.id])

\* the entry a table holds under its smallest key
FirstEntry(m) == m[CHOOSE k \in DOMAIN m : \A j \in DOMAIN m : k <= j]

\* a handleResponse that tests for the response's id but takes the first pending entry
handleResponse_first(response) ==
  IF response.id \notin DOMAIN pendingRequests
  THEN UNCHANGED <<pendingRequests, timers, calls>>
  ELSE LET pending == FirstEntry(pendingRequests) IN
       /\ timers' = timers \ {pending.timeout}
       /\ pendingRequests' = MapDelete(pendingRequests, pending.timeout.requestId)
       /\ calls' =
            IF Truthy(response.error)
            THEN Settle(calls, pending.reject,
                        [kind |-> "RemoteError", value |-> response.error, via |-> response.id])
            ELSE Settle(calls, pending.resolve,
                        [kind |-> "result", value |-> response.result, via |-> response.id])

\* a handleResponse that, for an id it does not know, falls back to the first pending entry
handleResponse_fallback(response) ==
  IF DOMAIN pendingRequests = {}
  THEN UNCHANGED <<pendingRequests, timers, calls>>
  ELSE LET pending == IF response.id \in DOMAIN pendingRequests
                      THEN pendingRequests[response.id]
                      ELSE FirstEntry(pendingRequests) IN
       /\ timers' = timers \ {pending.timeout}
       /\ pendingRequests' = MapDelete(pendingRequests, pending.timeout.requestId)
       /\ calls' =
            IF Truthy(response.error)
            THEN Settle(calls, pending.reject,
                        [kind |-> "RemoteError", value |-> response.error, via |-> response.id])
            ELSE Settle(calls, pending.resolve,
                        [kind |-> "result", value |-> response.result, via |-> response.id])

handleResponse(response) ==
  IF response.id \notin DOMAIN pendingRequests
  THEN UNCHANGED <<pendingRequests, timers, calls>>
  ELSE LET pending == pendingRequests[response.id] IN
       /\ timers' = timers \ {pending.timeout}
       /\ pendingRequests' = MapDelete(pendingRequests, response.id)
       /\ calls' =
            IF Truthy(response.error)
            THEN Settle(calls, pending.reject,
                        [kind |-> "RemoteError", value |-> response.error, via |-> response.id])
            ELSE Settle(calls, pending.resolve,
                        [kind |-> "result", value |-> response.result, via |-> response.id])

\* a message handler that, on data it cannot parse, fails every pending call
onMessage_failAll(c, data) ==
  /\ c \in Range(connections)
  /\ IF data.json
     THEN /\ handleResponse(data.message)
          /\ last' = [op |-> "message", conn |-> NULL, id |-> data.message.id,
                      hit |-> data.message.id \in DOMAIN pendingRequests]
     ELSE /\ pendingRequests' = <<>>
          /\ timers' = {}
          /\ calls' = [k \in 1..Len(calls) |->
                        IF calls[k].id \in DOMAIN pendingRequests
                        THEN [calls[k] EXCEPT !.settle =
                                Append(@, [kind |-> "RemoteError", value |-> "parse",
                                           via |-> NULL])]
                        ELSE calls[k]]
          /\ last' = [op |-> "message", conn |-> NULL, id |-> NULL, hit |-> FALSE]
  /\ UNCHANGED <<connections, readyState, activeConnectionId, sent, connCount, reqCount>>

\* a message handler that accepts a response only on the connection its request
\* was written to
onMessage_ownConnection(c, data) ==
  /\ c \in Range(connections)
  /\ IF data.json /\ \E k \in 1..Len(calls) : calls[k].id = data.message.id /\ calls[k].conn = c
     THEN /\ handleResponse(data.message)
          /\ last' = [op |-> "message", conn |-> NULL, id |-> data.message.id,
                      hit |-> data.message.id \in DOMAIN pendingRequests]
     ELSE /\ UNCHANGED <<pendingRequests, timers, calls>>
          /\ last' = [op |-> "message", conn |-> NULL,
                      id |-> IF data.json THEN data.message.id ELSE NULL, hit |-> FALSE]
  /\ UNCHANGED <<connections, readyState, activeConnectionId, sent, connCount, reqCount>>

\* ws.on('message') handler of connection c: JSON.parse, then handleResponse
onMessage(c, data) ==
  /\ c \in Range(connections)
  /\ IF data.json
     THEN /\ handleResponse(data.message)
          /\ last' = [op |-> "message", conn |-> NULL, id |-> data.message.id,
                      hit |-> data.message.id \in DOMAIN pendingRequests]
     ELSE /\ UNCHANGED <<pendingRequests, timers, calls>>
          /\ last' = [op |-> "message", conn |-> NULL, id |-> NULL, hit |-> FALSE]
  /\ UNCHANGED <<connections, readyState, activeConnectionId, sent, connCount, reqCount>>

\* ------------------------------------------------------------------ pingAll
\* the heartbeat envelope
Ping == [type |-> "ping"]

\* the number of heartbeats written to connection c
Pings(c) == Cardinality({i \in 1..Len(sent[c]) : sent[c][i] = Ping})

\* a loop that stops at the first connection that is not OPEN
pingTargets_break ==
  {connections[i] : i \in {j \in 1..Len(connections) :
                             \A h \in 1..j : readyState[connections[h]] = "OPEN"}}

\* the connections the loop of pingAll writes to: the tracked ones that are OPEN
pingTargets == {c \in Range(connections) : readyState[c] = "OPEN"}

\* setInterval(() => pluginManager.pingAll(), 30000): one heartbeat round
pingAll ==
  /\ \A c \in 1..MaxConns : Pings(c) < MaxPings
  /\ sent' = [c \in 1..MaxConns |->
                IF c \in pingTargets THEN Append(sent[c], Ping) ELSE sent[c]]
  /\ last' = [op |-> "pingAll", conn |-> NULL, id |-> NULL, hit |-> pingTargets # {}]
  /\ UNCHANGED <<connections, readyState, activeConnectionId, pendingRequests, timers,
                 calls, connCount, reqCount>>

\* ------------------------------------------------------------ tool handlers
\* deadline of a request, in milliseconds
REQUEST_TIMEOUT_MS == 30000

\* err.message of the Error a failed sendRequest rejects or throws with
errorMessage(outcome) ==
  CASE outcome.kind = "NoActiveConnection" ->
         <<"No RemNote plugin connected. Open RemNote and ensure the MCP Bridge plugin is active.">>
    [] outcome.kind = "TransportNotReady" -> <<"WebSocket connection not ready">>
    [] outcome.kind = "Timeout" -> <<"Request timeout after ", REQUEST_TIMEOUT_MS, "ms">>
    [] outcome.kind = "RemoteError" -> <<outcome.value>>

\* the CallToolResult the remnote_create_note handler returns once its single
\* `await pluginManager.sendRequest(...)` has settled with the outcome
createNoteResult(outcome) ==
  IF outcome.kind = "result"
  THEN [text |-> <<"JSON.stringify", outcome.value>>, isError |-> FALSE]
  ELSE [text |-> <<"Error: ">> \o errorMessage(outcome), isError |-> TRUE]

\* the remnote_status handler up to its await or, with no active connection, to
\* its return: hasActiveConnection() is tested and only then get_status is dispatched
remnoteStatus ==
  IF hasActiveConnection
  THEN sendRequest("get_status")
  ELSE /\ last' = [op |-> "remnote_status", conn |-> NULL, id |-> NULL, hit |-> FALSE]
       /\ UNCHANGED <<connections, readyState, activeConnectionId, pendingRequests, timers,
                      calls, sent, connCount, reqCount>>

\* what the handler returns when hasActiveConnection() is false
statusNotConnected ==
  [returned |-> TRUE, connected |-> FALSE,
   text |-> <<"message",
              "No RemNote plugin connected. Open RemNote and ensure MCP Bridge plugin is active.">>]

\* a handler without the catch: the Error of a failed dispatch propagates
statusResult_noCatch(outcome) ==
  IF outcome.kind = "result"
  THEN [returned |-> TRUE, connected |-> TRUE, text |-> <<"result", outcome.value>>]
  ELSE [returned |-> FALSE, thrown |-> errorMessage(outcome)]

\* what the remnote_status handler returns once its `await
\* pluginManager.sendRequest('get_status', {})` has settled with the outcome
statusResult(outcome) ==
  IF outcome.kind = "result"
  THEN [returned |-> TRUE, connected |-> TRUE, text |-> <<"result", outcome.value>>]
  ELSE [returned |-> TRUE, connected |-> FALSE,
        text |-> <<"error">> \o errorMessage(outcome)]

\* ------------------------------------------------------ plugin: WebSocketClient
Min(a, b) == IF a < b THEN a ELSE b

\* handles of sockets: a new socket gets the smallest handle that no socket the
\* client still hears from, and no handler invocation still running, refers to
SocketIds == 1..(1 + MaxStale + MaxRequests)

InUse == stale \cup {client.socket} \cup {r.sock : r \in inflight}

FreshSocket == CHOOSE g \in SocketIds : g \notin InUse /\ \A h \in SocketIds \ InUse : g <= h

\* connect(): idempotent entry into connecting, on a socket it opens
connect(c, fresh) ==
  IF c.status \in {"connecting", "connected"}
  THEN c
  ELSE [c EXCEPT !.status = "connecting", !.stopped = FALSE, !.socket = fresh]

\* the socket's open event
onOpen(c) ==
  [c EXCEPT !.status = "connected", !.attempts = 0, !.delay = initialReconnectDelay]

\* a socket's close or error event: while connected or connecting the client becomes
\* disconnected and, unless stopped or out of attempts, schedules a reconnect after
\* the current delay, doubles the delay up to the ceiling and counts the attempt
onCloseOrError(c) ==
  IF c.status \in {"connected", "connecting"}
  THEN IF ~c.stopped /\ c.attempts < maxReconnectAttempts
       THEN [c EXCEPT !.status = "disconnected",
                      !.timer = @ \cup {c.delay},
                      !.delay = Min(2 * c.delay, maxReconnectDelay),
                      !.attempts = @ + 1]
       ELSE [c EXCEPT !.status = "disconnected"]
  ELSE c

\* disconnect(): closes the socket, cancels the scheduled reconnects and stops
\* automatic reconnection
disconnect(c) ==
  [c EXCEPT !.status = "disconnected", !.stopped = TRUE, !.timer = {}, !.socket = NULL]

\* the response envelope for a handler invocation that returned or threw
responseEnvelope(id, h) ==
  IF h.kind = "returned"
  THEN [id |-> id, result |-> h.value]
  ELSE [id |-> id, error |-> h.value]

\* the response of a finished handler invocation, written on the request's socket
respond(request, h) ==
  [sock |-> request.sock, request |-> request, handler |-> h,
   envelope |-> responseEnvelope(request.id, h)]

\* the sockets left behind after the client's handle changed from c.socket to
\* d.socket: the handle that was replaced or closed still has its close event to come
Sockets(c, d) ==
  /\ stale' = IF c.socket # NULL /\ d.socket # c.socket THEN stale \cup {c.socket} ELSE stale
  /\ Cardinality(stale') <= MaxStale

\* ------------------------------------------------------------ plugin: index.ts
\* an addLog that, once the buffer is full, keeps the oldest entries
addLog_oldest(logs, message, level) ==
  LET pushed == Append(logs, [message |-> message, level |-> level]) IN
  IF Len(pushed) > LogLimit THEN SubSeq(pushed, 1, LogLimit) ELSE pushed

\* addLog(message, level): push, then keep the last 50
addLog(logs, message, level) ==
  LET pushed == Append(logs, [message |-> message, level |-> level]) IN
  IF Len(pushed) > LogLimit
  THEN SubSeq(pushed, Len(pushed) - LogLimit + 1, Len(pushed))
  ELSE pushed

\* the onStatusChange callback the client is constructed with
onStatusChange(cs, status) == [cs EXCEPT !.status = status]

\* a handleRequest that does not test remAdapter before it uses it
handleRequestEntry_noAdapterTest(adapter, action) ==
  IF action \notin KnownActions
  THEN [kind |-> "threw", value |-> <<"Unknown action: ", action>>]
  ELSE [kind |-> "running"]

\* handleRequest up to its first await: the Error it throws, or the adapter call it awaits
handleRequestEntry(adapter, action) ==
  IF ~adapter
  THEN [kind |-> "threw", value |-> <<"RemAdapter not initialized">>]
  ELSE IF action \notin KnownActions
       THEN [kind |-> "threw", value |-> <<"Unknown action: ", action>>]
       ELSE [kind |-> "running"]

\* handleRequest from its await on: it returns what the adapter returned, or the
\* adapter's Error propagates
handleRequestResume(outcome) ==
  IF outcome.ok
  THEN [kind |-> "returned", value |-> outcome.value]
  ELSE [kind |-> "threw", value |-> <<outcome.message>>]

\* the counter handleRequest increments once the adapter call of the action returned
countAction(stats, action) ==
  CASE action = "create_note" -> [stats EXCEPT !.created = @ + 1]
    [] action = "append_journal" -> [stats EXCEPT !.journal = @ + 1]
    [] action = "search" -> [stats EXCEPT !.searches = @ + 1]
    [] action = "update_note" -> [stats EXCEPT !.updated = @ + 1]
    [] OTHER -> stats

\* what a step that writes no response and takes no automatic attempt records
Quiet(op) == [op |-> op, auto |-> FALSE, reply |-> <<>>]

\* initializeConnection(plugin), on activation: the adapter and the client are
\* created and the client is told to connect
initializeConnection ==
  /\ plast.op = "init"
  /\ remAdapter' = TRUE
  /\ wsClient' = TRUE
  /\ LET d == connect(client, FreshSocket) IN
     /\ client' = d
     /\ Sockets(client, d)
     /\ connectionState' =
          onStatusChange(
            [connectionState EXCEPT !.logs =
               addLog(addLog(@, <<"RemAdapter initialized">>, "success"),
                      <<"Connecting to MCP server at ", "wsUrl", "...">>, "info")],
            d.status)
  /\ plast' = Quiet("initializeConnection")
  /\ logged' = logged \o <<<<"RemAdapter initialized">>,
                           <<"Connecting to MCP server at ", "wsUrl", "...">>>>
  /\ UNCHANGED <<received, inflight, scheduled>>

\* a deactivation that drops its references without disconnecting the client
onDeactivate_keepClient ==
  /\ wsClient
  /\ wsClient' = FALSE
  /\ remAdapter' = FALSE
  /\ plast' = Quiet("onDeactivate")
  /\ UNCHANGED <<connectionState, client, stale, received, logged, inflight, scheduled>>

\* onDeactivate(): wsClient.disconnect(), then the references are dropped
onDeactivate ==
  /\ wsClient
  /\ LET d == disconnect(client) IN
     /\ client' = d
     /\ Sockets(client, d)
     /\ connectionState' = onStatusChange(connectionState, d.status)
  /\ wsClient' = FALSE
  /\ remAdapter' = FALSE
  /\ plast' = Quiet("onDeactivate")
  /\ UNCHANGED <<received, logged, inflight, scheduled>>

\* wsClient.connect() called again by the plugin's owner, while no reconnect is scheduled
clientConnect ==
  /\ wsClient
  /\ client.timer = {}
  /\ LET d == connect(client, FreshSocket) IN
     /\ client' = d
     /\ Sockets(client, d)
     /\ connectionState' = onStatusChange(connectionState, d.status)
  /\ plast' = Quiet("connect")
  /\ UNCHANGED <<wsClient, remAdapter, received, logged, inflight, scheduled>>

\* wsClient.disconnect() called by the plugin's owner
clientDisconnect ==
  /\ wsClient
  /\ LET d == disconnect(client) IN
     /\ client' = d
     /\ Sockets(client, d)
     /\ connectionState' = onStatusChange(connectionState, d.status)
  /\ plast' = Quiet("disconnect")
  /\ UNCHANGED <<wsClient, remAdapter, received, logged, inflight, scheduled>>

\* the open event of the socket the client is connecting on
onSocketOpen ==
  /\ client.socket # NULL
  /\ client.status = "connecting"
  /\ client' = onOpen(client)
  /\ connectionState' = onStatusChange(connectionState, client'.status)
  /\ scheduled' = <<>>
  /\ plast' = Quiet("open")
  /\ UNCHANGED <<wsClient, remAdapter, stale, received, logged, inflight>>

\* the close or error event of socket g: the client's handle, or a socket it left behind
onSocketClose(g) ==
  /\ g \in stale \cup ({client.socket} \ {NULL})
  /\ LET d == onCloseOrError(client) IN
     /\ client' = IF g = client.socket THEN [d EXCEPT !.socket = NULL] ELSE d
     /\ scheduled' = IF d.attempts # client.attempts
                     THEN Append(scheduled, client.delay)
                     ELSE scheduled
     /\ connectionState' = onStatusChange(connectionState, d.status)
  /\ stale' = stale \ {g}
  /\ plast' = Quiet("close")
  /\ UNCHANGED <<wsClient, remAdapter, received, logged, inflight>>

\* a scheduled reconnect fires: the automatic connection attempt
onReconnectTimer(delay) ==
  /\ delay \in client.timer
  /\ LET d == connect([client EXCEPT !.timer = @ \ {delay}], FreshSocket) IN
     /\ client' = d
     /\ Sockets(client, d)
     /\ connectionState' = onStatusChange(connectionState, d.status)
     /\ plast' = [op |-> "reconnect", auto |-> d.socket # client.socket, reply |-> <<>>]
  /\ UNCHANGED <<wsClient, remAdapter, received, logged, inflight, scheduled>>

\* a frame arrives on socket g: it is parsed and the message handler is invoked
onFrame(g, frame) ==
  /\ g \in stale \cup (IF client.status = "connected" THEN {client.socket} ELSE {})
  /\ received < MaxRequests
  /\ received' = received + 1
  /\ logged' = IF ~frame.json THEN Append(logged, <<"parse failure">>)
                ELSE IF remAdapter THEN Append(logged, <<"Received action: ", frame.action>>)
                ELSE logged
  /\ IF ~frame.json
     THEN /\ connectionState' =
               [connectionState EXCEPT !.logs = addLog(@, <<"parse failure">>, "error")]
          /\ plast' = Quiet("garbage")
          /\ UNCHANGED inflight
     ELSE LET request == [id |-> received + 1, action |-> frame.action, sock |-> g]
              h == handleRequestEntry(remAdapter, frame.action) IN
          /\ inflight' = IF h.kind = "running" THEN inflight \cup {request} ELSE inflight
          /\ plast' = [op |-> "frame", auto |-> FALSE,
                       reply |-> IF h.kind = "running" THEN <<>> ELSE <<respond(request, h)>>]
          /\ connectionState' =
               IF remAdapter
               THEN [connectionState EXCEPT !.logs =
                       addLog(@, <<"Received action: ", frame.action>>, "info")]
               ELSE connectionState
  /\ UNCHANGED <<wsClient, remAdapter, client, stale, scheduled>>

\* a handler that counts the action whether the adapter call returned or threw
adapterReturns_countFailures(request, outcome) ==
  /\ request \in inflight
  /\ inflight' = inflight \ {request}
  /\ connectionState' = [connectionState EXCEPT !.stats = countAction(@, request.action)]
  /\ plast' = [op |-> "adapterReturns", auto |-> FALSE,
               reply |-> <<respond(request, handleRequestResume(outcome))>>]
  /\ UNCHANGED <<wsClient, remAdapter, client, stale, received, logged, scheduled>>

\* the RemAdapter call a handler invocation awaits ends; the handler resumes
adapterReturns(request, outcome) ==
  /\ request \in inflight
  /\ inflight' = inflight \ {request}
  /\ connectionState' =
       IF outcome.ok
       THEN [connectionState EXCEPT !.stats = countAction(@, request.action)]
       ELSE connectionState
  /\ plast' = [op |-> "adapterReturns", auto |-> FALSE,
               reply |-> <<respond(request, handleRequestResume(outcome))>>]
  /\ UNCHANGED <<wsClient, remAdapter, client, stale, received, logged, scheduled>>

\* the onLog callback the client is constructed with: addLog(message, level)
onLog(message, level) ==
  /\ wsClient
  /\ Len(logged) < MaxLogged
  /\ connectionState' = [connectionState EXCEPT !.logs = addLog(@, message, level)]
  /\ logged' = Append(logged, message)
  /\ plast' = Quiet("onLog")
  /\ UNCHANGED <<wsClient, remAdapter, client, stale, received, inflight, scheduled>>

\* ------------------------------------------------------------ SSE endpoints
\* app.get('/sse') up to its await: the transport is created and stored under its
\* session id, its onclose handler is installed, and connect() is awaited
getSse ==
  /\ sseCount < MaxSessions
  /\ LET sessionId == uuidv4(sseCount) IN
     /\ sseCount' = sseCount + 1
     /\ transports' = transports \cup {sessionId}
     /\ sessions' = [sessions EXCEPT ![sessionId] = "starting"]
     /\ slast' = [op |-> "GET /sse", session |-> sessionId, status |-> 0, delivered |-> NULL]

\* `await mcpServer.connect(transport)` returns: the session is established
sseEstablished(s) ==
  /\ sessions[s] = "starting"
  /\ sessions' = [sessions EXCEPT ![s] = "open"]
  /\ slast' = [op |-> "established", session |-> s, status |-> 0, delivered |-> NULL]
  /\ UNCHANGED <<transports, sseCount>>

\* `await mcpServer.connect(transport)` throws: the catch logs and answers 500
\* unless the headers have been sent already
sseFailed(s, headersSent) ==
  /\ sessions[s] = "starting"
  /\ sessions' = [sessions EXCEPT ![s] = "failed"]
  /\ slast' = [op |-> "failed", session |-> s,
               status |-> IF headersSent THEN 0 ELSE 500, delivered |-> NULL]
  /\ UNCHANGED <<transports, sseCount>>

\* transport.onclose of session s is called: transports.delete(sessionId)
transportClose(s) ==
  /\ sessions[s] \in {"starting", "open", "failed"}
  /\ transports' = transports \ {s}
  /\ sessions' = [sessions EXCEPT ![s] = "closed"]
  /\ slast' = [op |-> "onclose", session |-> s, status |-> 0, delivered |-> NULL]
  /\ UNCHANGED sseCount

\* app.post('/messages'): the sessionId of the query (NULL: none given), and how
\* the transport's handlePostMessage ends when it is reached
postMessages(sessionId, handled) ==
  /\ slast' =
       IF sessionId = NULL
       THEN [op |-> "POST /messages", session |-> NULL, status |-> 400, delivered |-> NULL]
       ELSE IF sessionId \notin transports
       THEN [op |-> "POST /messages", session |-> sessionId, status |-> 404,
             delivered |-> NULL]
       ELSE [op |-> "POST /messages", session |-> sessionId, status |-> handled,
             delivered |-> sessionId]
  /\ UNCHANGED <<transports, sessions, sseCount>>

\* ------------------------------------------------------------ specification
\* the server: the manager's handlers; the plugin's state is not touched by them
Next ==
  \/ addConnection /\ UNCHANGED <<pluginVars, sseVars>>
  \/ \E c \in 1..MaxConns : wsClosing(c) /\ UNCHANGED <<pluginVars, sseVars>>
  \/ \E c \in 1..MaxConns : onClose(c) /\ UNCHANGED <<pluginVars, sseVars>>
  \/ \E action \in Actions : sendRequest(action) /\ UNCHANGED <<pluginVars, sseVars>>
  \/ \E t \in timers : onTimeout(t) /\ UNCHANGED <<pluginVars, sseVars>>
  \/ \E c \in 1..MaxConns, data \in Frames : onMessage(c, data) /\ UNCHANGED <<pluginVars, sseVars>>

Spec == Init /\ [][Next]_vars

\* the manager with its heartbeat interval running, facing plugins that register,
\* are sent requests and close but never answer (pingAll neither reads nor writes
\* what a response changes)
PingNext ==
  \/ addConnection /\ UNCHANGED <<pluginVars, sseVars>>
  \/ \E c \in 1..MaxConns : wsClosing(c) /\ UNCHANGED <<pluginVars, sseVars>>
  \/ \E c \in 1..MaxConns : onClose(c) /\ UNCHANGED <<pluginVars, sseVars>>
  \/ \E action \in Actions : sendRequest(action) /\ UNCHANGED <<pluginVars, sseVars>>
  \/ \E t \in timers : onTimeout(t) /\ UNCHANGED <<pluginVars, sseVars>>
  \/ pingAll /\ UNCHANGED <<pluginVars, sseVars>>

PingSpec == Init /\ [][PingNext]_vars

\* the plugin's client keeping its connection up: activation, connect() and
\* disconnect(), the socket's events, the reconnect timer and deactivation, while
\* the server sends nothing; the server's state is not touched
ReconnectNext ==
  \/ initializeConnection /\ UNCHANGED <<managerVars, sseVars>>
  \/ onDeactivate /\ UNCHANGED <<managerVars, sseVars>>
  \/ clientConnect /\ UNCHANGED <<managerVars, sseVars>>
  \/ clientDisconnect /\ UNCHANGED <<managerVars, sseVars>>
  \/ onSocketOpen /\ UNCHANGED <<managerVars, sseVars>>
  \/ \E g \in SocketIds : onSocketClose(g) /\ UNCHANGED <<managerVars, sseVars>>
  \/ \E delay \in client.timer : onReconnectTimer(delay) /\ UNCHANGED <<managerVars, sseVars>>

ReconnectSpec == Init /\ [][ReconnectNext]_vars

\* the plugin serving requests: activation, the socket's events, the frames it is
\* sent, the adapter calls ending, the reconnect timer and deactivation
RequestNext ==
  \/ initializeConnection /\ UNCHANGED <<managerVars, sseVars>>
  \/ onDeactivate /\ UNCHANGED <<managerVars, sseVars>>
  \/ onSocketOpen /\ UNCHANGED <<managerVars, sseVars>>
  \/ \E g \in SocketIds : onSocketClose(g) /\ UNCHANGED <<managerVars, sseVars>>
  \/ \E delay \in client.timer : onReconnectTimer(delay) /\ UNCHANGED <<managerVars, sseVars>>
  \/ \E g \in SocketIds, frame \in PluginFrames : onFrame(g, frame) /\ UNCHANGED <<managerVars, sseVars>>
  \/ \E request \in inflight, outcome \in AdapterOutcomes :
        adapterReturns(request, outcome) /\ UNCHANGED <<managerVars, sseVars>>

RequestSpec == Init /\ [][RequestNext]_vars

\* the manager after n registrations, some of them closed since and some closing,
\* and no request made yet: the Map holds the connections still tracked in the
\* order of their registration, and the earliest of them is the active one
PromotionInit ==
  /\ \E n \in 0..MaxTracked :
       \E tracked \in SUBSET (1..n) :
         \E closing \in SUBSET tracked :
           /\ connCount = n
           /\ connections = SelectSeq([i \in 1..MaxTracked |-> i], LAMBDA c : c \in tracked)
           /\ readyState = [c \in 1..MaxTracked |->
                              IF c > n THEN "NONE"
                              ELSE IF c \notin tracked THEN "CLOSED"
                              ELSE IF c \in closing THEN "CLOSING" ELSE "OPEN"]
           /\ sent = [c \in 1..MaxTracked |->
                        IF c > n THEN <<>>
                        ELSE <<[type |-> "connected", connectionId |-> c]>>]
           /\ activeConnectionId = IF tracked = {} THEN NULL
                                   ELSE CHOOSE c \in tracked : \A d \in tracked : c <= d
  /\ pendingRequests = <<>>
  /\ timers = {}
  /\ calls = <<>>
  /\ reqCount = 0
  /\ last = [op |-> "init", conn |-> NULL, id |-> NULL, hit |-> FALSE]
  /\ PluginInit
  /\ SseInit

\* the sockets of the tracked connections closing, in any order
PromotionNext ==
  \/ \E c \in 1..MaxTracked : wsClosing(c) /\ UNCHANGED <<pluginVars, sseVars>>
  \/ \E c \in 1..MaxTracked : onClose(c) /\ UNCHANGED <<pluginVars, sseVars>>

PromotionSpec == PromotionInit /\ [][PromotionNext]_vars

\* the plugin with its connection up, sent requests for every action handleRequest
\* has a case for and for one it has none for, before and after deactivation
StatsNext ==
  \/ initializeConnection /\ UNCHANGED <<managerVars, sseVars>>
  \/ onDeactivate /\ UNCHANGED <<managerVars, sseVars>>
  \/ onSocketOpen /\ UNCHANGED <<managerVars, sseVars>>
  \/ \E g \in SocketIds, action \in KnownActions \cup {"bogus"} :
        onFrame(g, [json |-> TRUE, action |-> action]) /\ UNCHANGED <<managerVars, sseVars>>
  \/ \E request \in inflight, outcome \in AdapterOutcomes :
        adapterReturns(request, outcome) /\ UNCHANGED <<managerVars, sseVars>>

StatsSpec == Init /\ [][StatsNext]_vars

\* the text of the n-th log call of a session
LogMessage(n) == <<"client log ", ToString(n)>>

\* the plugin is activated and its client logs one message after another, each
\* different from all before it
LogNext ==
  \/ initializeConnection /\ UNCHANGED <<managerVars, sseVars>>
  \/ onLog(LogMessage(Len(logged) + 1), "info") /\ UNCHANGED <<managerVars, sseVars>>

LogSpec == Init /\ [][LogNext]_vars

\* the server when the only tool invoked is remnote_status
StatusNext ==
  \/ addConnection /\ UNCHANGED <<pluginVars, sseVars>>
  \/ \E c \in 1..MaxConns : wsClosing(c) /\ UNCHANGED <<pluginVars, sseVars>>
  \/ \E c \in 1..MaxConns : onClose(c) /\ UNCHANGED <<pluginVars, sseVars>>
  \/ remnoteStatus /\ UNCHANGED <<pluginVars, sseVars>>
  \/ \E t \in timers : onTimeout(t) /\ UNCHANGED <<pluginVars, sseVars>>
  \/ \E c \in 1..MaxConns, data \in Frames : onMessage(c, data) /\ UNCHANGED <<pluginVars, sseVars>>

StatusSpec == Init /\ [][StatusNext]_vars

\* the statuses a reached handlePostMessage ends the request with: accepted, or
\* the handler's 'Request failed' after it threw
PostStatuses == {202, 500}

\* the HTTP endpoints serving MCP clients: sessions are opened, established or
\* fail to be, close, and messages are posted with any session id or none
SseNext ==
  \/ getSse /\ UNCHANGED <<managerVars, pluginVars>>
  \/ \E s \in 1..MaxSessions : sseEstablished(s) /\ UNCHANGED <<managerVars, pluginVars>>
  \/ \E s \in 1..MaxSessions, headersSent \in BOOLEAN :
        sseFailed(s, headersSent) /\ UNCHANGED <<managerVars, pluginVars>>
  \/ \E s \in 1..MaxSessions : transportClose(s) /\ UNCHANGED <<managerVars, pluginVars>>
  \/ \E sessionId \in {NULL} \cup 1..MaxSessions, handled \in PostStatuses :
        postMessages(sessionId, handled) /\ UNCHANGED <<managerVars, pluginVars>>

SseSpec == Init /\ [][SseNext]_vars

\* every timer handle a request can own: the k-th call gets the k-th id or an earlier one
TimerHandles ==
  {h \in [requestId : 1..MaxCalls, reject : 1..MaxCalls] : h.requestId <= h.reject}

\* Node's timer queue runs the callback of every armed timer: an armed deadline fires
FairSpec == Spec /\ \A t \in TimerHandles : WF_vars(onTimeout(t) /\ UNCHANGED <<pluginVars, sseVars>>)

\* ================================================================== claims
\* outcome kinds a caller can observe
Kinds == {"result", "RemoteError", "Timeout", "TransportNotReady", "NoActiveConnection"}

Settled(k) == Len(calls[k].settle) >= 1
IsPending(k) == calls[k].id \in DOMAIN pendingRequests
KindOf(k) == calls[k].settle[1].kind
TimerOf(k) == [requestId |-> calls[k].id, reject |-> k]

\* C1: every call's continuation (resolve or reject) is invoked at most once, under
\* any interleaving of responses, duplicates, late responses, timeouts, registrations
\* and closes.
C1_AtMostOnce == \A k \in 1..Len(calls) : Len(calls[k].settle) <= 1

\* a call settled by a response has just had a duplicate response for its id discarded
C1_Witness ==
  \E k \in 1..Len(calls) :
    /\ Settled(k) /\ KindOf(k) \in {"result", "RemoteError"}
    /\ last.op = "message" /\ last.id = calls[k].id /\ ~last.hit

\* C2: every sendRequest call is eventually settled, with one of the five outcome
\* kinds, given only that an armed deadline timer eventually fires: calls are never
\* removed from the history, and for the k-th call it is true again and again that it
\* has not been made yet or has been settled; so once made it is eventually settled.
C2_EventuallyCompletes ==
  /\ [][Len(calls') >= Len(calls)]_vars
  /\ \A k \in 1..MaxCalls :
       []<>(Len(calls) < k \/ (Settled(k) /\ KindOf(k) \in Kinds))

\* a call written to a connection that closed without answering ended in Timeout
C2_Witness ==
  \E k \in 1..Len(calls) :
    /\ calls[k].conn # NULL /\ calls[k].conn \notin Range(connections)
    /\ Settled(k) /\ KindOf(k) = "Timeout"

\* C3: a response settles the call that carries its id and no other call, whatever
\* the order in which responses arrive; the caller gets that envelope's result or error.
C3_RoutedById ==
  [][(last'.op = "message" /\ last'.id \in DOMAIN pendingRequests) =>
       \A m \in Responses :
         (m.id = last'.id /\ \E c \in Range(connections) :
                                 onMessage(c, [json |-> TRUE, message |-> m]))
         => \A k \in 1..Len(calls) :
              IF calls[k].id = m.id
              THEN \E o \in [kind : {"result", "RemoteError"}, value : {m.result, m.error},
                              via : {m.id}] :
                     calls'[k] = [calls[k] EXCEPT !.settle = Append(@, o)]
              ELSE calls'[k] = calls[k]]_vars

\* dispatch A then B; B is answered first, then A; each got its own, different, result
C3_Witness ==
  /\ Len(calls) >= 2
  /\ Settled(1) /\ Settled(2)
  /\ KindOf(1) = "result" /\ KindOf(2) = "result"
  /\ calls[1].settle[1].value # calls[2].settle[1].value
  /\ calls[1].settle[1].via = calls[1].id /\ calls[2].settle[1].via = calls[2].id
  /\ last.op = "message" /\ last.hit /\ last.id = calls[1].id

\* C4: a response whose id is not in the pending table is discarded: no call is
\* settled and the pending table, the timers, the connection set and the active
\* connection id are unchanged.
C4_UnknownDiscarded ==
  [][(last'.op = "message" /\ last'.id \notin DOMAIN pendingRequests) =>
       UNCHANGED <<calls, pendingRequests, timers, connections, activeConnectionId>>]_vars

\* a response under a never-issued id was discarded while another call is pending
C4_Witness ==
  /\ last.op = "message" /\ ~last.hit /\ last.id = MaxCalls + 1
  /\ \E k \in 1..Len(calls) : IsPending(k) /\ TimerOf(k) \in timers /\ ~Settled(k)

\* C5: when a deadline fires the call fails with Timeout and its entry is removed,
\* every other entry, timer and call is untouched, and a call that ended in Timeout
\* is never settled again (a late response for its id is discarded).
C5_Timeout ==
  [][/\ (last'.op = "timeout") =>
          \E k \in 1..Len(calls) :
            /\ calls[k].id = last'.id /\ ~Settled(k)
            /\ calls' = [calls EXCEPT ![k].settle =
                           <<[kind |-> "Timeout", value |-> Undefined, via |-> NULL]>>]
            /\ pendingRequests' = MapDelete(pendingRequests, calls[k].id)
            /\ calls[k].id \notin DOMAIN pendingRequests'
            /\ timers' = timers \ {TimerOf(k)}
     /\ \A k \in 1..Len(calls) :
          (Settled(k) /\ KindOf(k) = "Timeout") => calls'[k] = calls[k]]_vars

\* a late response for a timed-out call was discarded while another call is pending
C5_Witness ==
  /\ last.op = "message" /\ ~last.hit
  /\ \E k \in 1..Len(calls) :
       /\ calls[k].id = last.id
       /\ calls[k].settle = <<[kind |-> "Timeout", value |-> Undefined, via |-> NULL]>>
  /\ \E j \in 1..Len(calls) : IsPending(j) /\ TimerOf(j) \in timers

NoActiveConnection == [kind |-> "NoActiveConnection", value |-> Undefined, via |-> NULL]
TransportNotReady == [kind |-> "TransportNotReady", value |-> Undefined, via |-> NULL]
\* the call a sendRequest step has just added
NewCall == calls'[Len(calls')]
Connected(c) == [type |-> "connected", connectionId |-> c]

\* C6: with no tracked active connection sendRequest fails at once with
\* NoActiveConnection: no id is generated or recorded, no timer is armed, nothing
\* is written; and the call is never taken up later: the only writes are the
\* acknowledgement of a registration and the request of the sendRequest being made.
C6_NoActiveFailsFast ==
  [][/\ (last'.op = "sendRequest" /\ activeConnectionId \notin Range(connections)) =>
          /\ calls' = Append(calls, [action |-> NewCall.action, id |-> NULL, conn |-> NULL,
                                     settle |-> <<NoActiveConnection>>])
          /\ UNCHANGED <<pendingRequests, timers, sent, reqCount>>
     /\ \A c \in 1..MaxConns : (sent'[c] # sent[c]) =>
          \/ /\ last'.op = "addConnection" /\ last'.conn = c
             /\ sent'[c] = <<Connected(c)>>
          \/ /\ last'.op = "sendRequest" /\ c = activeConnectionId
             /\ c \in Range(connections)
             /\ Len(calls') = Len(calls) + 1 /\ NewCall.conn = c /\ NewCall.id # NULL
             /\ sent'[c] = Append(sent[c], BridgeRequest(NewCall.id, NewCall.action))
     /\ \A k \in 1..Len(calls) :
          (calls[k].settle = <<NoActiveConnection>>) => calls'[k] = calls[k]]_vars

\* a call failed with NoActiveConnection, and the connection registered afterwards
\* was sent its acknowledgement only
C6_Witness ==
  /\ last.op = "addConnection" /\ last.hit
  /\ sent[last.conn] = <<Connected(last.conn)>>
  /\ \E k \in 1..Len(calls) : calls[k].settle = <<NoActiveConnection>> /\ calls[k].id = NULL
  /\ pendingRequests = <<>> /\ timers = {}

\* C7: with a tracked active connection that is not OPEN, sendRequest fails with
\* TransportNotReady, leaves the pending table and the armed timers exactly as they
\* were and writes nothing; the call is never settled again (no later Timeout).
C7_NotReady ==
  [][/\ (/\ last'.op = "sendRequest"
         /\ activeConnectionId \in Range(connections)
         /\ readyState[activeConnectionId] # "OPEN") =>
          /\ calls' = Append(calls, [action |-> NewCall.action, id |-> NewCall.id,
                                     conn |-> NULL, settle |-> <<TransportNotReady>>])
          /\ pendingRequests' = pendingRequests
          /\ timers' = timers
          /\ sent' = sent
     /\ \A k \in 1..Len(calls) :
          (calls[k].settle = <<TransportNotReady>>) =>
             /\ calls'[k] = calls[k]
             /\ TimerOf(k) \notin timers']_vars

\* a sendRequest has just failed on a closing active connection while an earlier
\* call is still pending
C7_Witness ==
  /\ last.op = "sendRequest" /\ ~last.hit /\ last.conn # NULL
  /\ calls[Len(calls)].settle = <<TransportNotReady>>
  /\ \E k \in 1..Len(calls) : IsPending(k) /\ TimerOf(k) \in timers

\* C8: when the active connection closes while two or more are tracked,
\* hasActiveConnection() stays true and the sendRequest that follows is written to
\* the promoted connection and becomes a pending call.
C8_PromotedDispatch ==
  [][/\ (last'.op = "close" /\ last'.hit /\ Len(connections) >= 2) => hasActiveConnection'
     /\ (last.op = "close" /\ last.hit /\ connections # <<>> /\ last'.op = "sendRequest") =>
          /\ last'.hit
          /\ last'.conn = activeConnectionId
          /\ last'.id \in DOMAIN pendingRequests'
          /\ sent'[activeConnectionId] =
               Append(sent[activeConnectionId], BridgeRequest(NewCall.id, NewCall.action))]_vars

\* C9: when the only tracked connection closes, hasActiveConnection() becomes false
\* and every sendRequest fails with NoActiveConnection as long as nothing is
\* tracked; only addConnection ends that, its connection becomes the active one,
\* and the sendRequest that follows is accepted on it.
C9_OnlyConnectionCloses ==
  [][/\ (last'.op = "close" /\ last'.hit /\ Len(connections) = 1) =>
          (~hasActiveConnection' /\ activeConnectionId' = NULL)
     /\ (connections = <<>> /\ last'.op = "sendRequest") =>
          (Len(calls') = Len(calls) + 1 /\ NewCall.settle = <<NoActiveConnection>>)
     /\ (connections = <<>> /\ connections' # <<>>) =>
          /\ last'.op = "addConnection"
          /\ connections' = <<last'.conn>>
          /\ activeConnectionId' = last'.conn
          /\ hasActiveConnection'
     /\ (last.op = "addConnection" /\ connections = <<last.conn>>
            /\ last'.op = "sendRequest") =>
          /\ last'.hit /\ last'.conn = last.conn
          /\ NewCall.settle = <<>>
          /\ NewCall.id \in DOMAIN pendingRequests']_vars

\* connection 1 carried a call and closed, the next call failed with
\* NoActiveConnection, and connection 2 has just registered and is active
C9_Witness ==
  /\ Len(calls) = 2
  /\ calls[1].conn = 1 /\ readyState[1] = "CLOSED"
  /\ calls[2].settle = <<NoActiveConnection>>
  /\ last.op = "addConnection" /\ last.conn = 2 /\ activeConnectionId = 2

\* C10: a close event settles no call and leaves the pending table and the timers
\* unchanged; an unsettled call is settled only by a response carrying its id or by
\* its own deadline timer.
C10_CloseKeepsPending ==
  [][/\ (last'.op = "close") => UNCHANGED <<pendingRequests, timers, calls>>
     /\ \A k \in 1..Len(calls) :
          (~Settled(k) /\ calls'[k] # calls[k]) =>
             /\ Len(calls'[k].settle) = 1
             /\ calls'[k] = [calls[k] EXCEPT !.settle = calls'[k].settle]
             /\ LET o == calls'[k].settle[1] IN
                \/ /\ last'.op = "message" /\ last'.id = calls[k].id
                   /\ o.kind \in {"result", "RemoteError"} /\ o.via = calls[k].id
                \/ /\ last'.op = "timeout" /\ last'.id = calls[k].id
                   /\ o.kind = "Timeout"]_vars

\* the active connection has just closed with a call written to it still pending
C10_Witness ==
  /\ last.op = "close" /\ last.hit
  /\ \E k \in 1..Len(calls) :
       /\ calls[k].conn = last.conn
       /\ IsPending(k) /\ ~Settled(k) /\ TimerOf(k) \in timers

\* C11: addConnection stores the new connection under an identifier that was never
\* used before and returns that identifier; the connection becomes the active one
\* only if none is active, so an existing active connection is never displaced; and
\* exactly one {type: 'connected', connectionId} envelope carrying that identifier
\* is written, on the new connection and on no other.
C11_Registration ==
  [][(last'.op = "addConnection") =>
       LET connectionId == last'.conn IN
       /\ connectionId \notin Range(connections)
       /\ readyState[connectionId] = "NONE" /\ sent[connectionId] = <<>>
       /\ connections' = Append(connections, connectionId)
       /\ activeConnectionId' =
            IF activeConnectionId = NULL THEN connectionId ELSE activeConnectionId
       /\ sent' = [sent EXCEPT ![connectionId] = <<Connected(connectionId)>>]]_vars

\* a second connection has registered while the first is still the active one
C11_Witness ==
  /\ last.op = "addConnection" /\ ~last.hit
  /\ Len(connections) = 2 /\ connections[2] = last.conn
  /\ activeConnectionId = connections[1]
  /\ sent[last.conn] = <<Connected(last.conn)>>

\* C12: a response whose id matches a pending call settles that call by its error
\* field alone: if the envelope carries an error field (whatever string it holds)
\* the call fails with RemoteError whose message is exactly that string, otherwise
\* it resolves with exactly the envelope's result.
C12_ErrorFieldDecides ==
  [][(last'.op = "message" /\ last'.id \in DOMAIN pendingRequests) =>
       \A m \in Responses :
         (m.id = last'.id /\ \E c \in Range(connections) :
                                 onMessage(c, [json |-> TRUE, message |-> m]))
         => \A k \in 1..Len(calls) :
              (calls[k].id = m.id) =>
                 calls'[k].settle =
                   <<IF m.error # Undefined
                     THEN [kind |-> "RemoteError", value |-> m.error, via |-> m.id]
                     ELSE [kind |-> "result", value |-> m.result, via |-> m.id]>>]_vars

\* the number of request envelopes carrying the id that were written to connection c
Written(c, id) ==
  Cardinality({i \in 1..Len(sent[c]) :
                 "action" \in DOMAIN sent[c][i] /\ sent[c][i].id = id})

\* C13: no retry: for each sendRequest call at most one request envelope is ever
\* written, to at most one connection (exactly one, on the connection that was
\* active, if the call was accepted; none if it failed at once), every request
\* envelope belongs to a call, and a call that failed with Timeout, RemoteError,
\* TransportNotReady or NoActiveConnection is returned by the tool handler as an
\* error result carrying the failure's message.
C13_NeverRetries ==
  /\ \A k \in 1..Len(calls) : \A c \in 1..MaxConns :
       Written(c, calls[k].id) = IF calls[k].conn = c THEN 1 ELSE 0
  /\ \A c \in 1..MaxConns : \A i \in 1..Len(sent[c]) :
       ("action" \in DOMAIN sent[c][i]) =>
          \E k \in 1..Len(calls) : calls[k].id = sent[c][i].id /\ calls[k].conn = c
  /\ \A k \in 1..Len(calls) :
       (Settled(k) /\ KindOf(k) # "result") =>
          /\ createNoteResult(calls[k].settle[1]).isError
          /\ createNoteResult(calls[k].settle[1]).text =
               <<"Error: ">> \o errorMessage(calls[k].settle[1])

\* a call has just timed out while the connection it was written to is still the
\* active one and writable
C13_Witness ==
  /\ last.op = "timeout"
  /\ \E k \in 1..Len(calls) :
       /\ calls[k].id = last.id /\ Settled(k) /\ KindOf(k) = "Timeout"
       /\ calls[k].conn = activeConnectionId /\ writable(activeConnectionId)
       /\ Written(calls[k].conn, calls[k].id) = 1

\* C14: data that does not parse, arriving on any tracked connection, is dropped:
\* no call is settled, nothing is written, and the pending table, the timers, the
\* connection set and the active connection are exactly as before, so every call
\* pending at that moment is still pending with its deadline timer armed and
\* completes as if the data had never arrived.
C14_UnparsableDropped ==
  [][\A c \in 1..MaxConns :
       onMessage(c, [json |-> FALSE]) =>
          /\ UNCHANGED <<calls, pendingRequests, timers, connections, readyState,
                         activeConnectionId, sent>>
          /\ \A k \in 1..Len(calls) :
               IsPending(k) => (calls[k].id \in DOMAIN pendingRequests'
                                /\ (TimerOf(k) \in timers <=> TimerOf(k) \in timers'))]_vars

\* unparsable data has just been dropped while a call is pending with its deadline
\* timer armed
C14_Witness ==
  /\ last.op = "message" /\ last.id = NULL /\ ~last.hit
  /\ \E k \in 1..Len(calls) :
       IsPending(k) /\ ~Settled(k) /\ TimerOf(k) \in timers /\ writable(calls[k].conn)

\* C15: a heartbeat round writes exactly one {type: 'ping'} to every tracked
\* connection that is OPEN and nothing to any other connection (one that is not
\* OPEN is skipped and the ones after it are still pinged); it leaves the
\* connection set, the active connection, the pending table and the timers as they
\* were and settles no call.
C15_PingAll ==
  [][(last'.op = "pingAll") =>
       /\ \A c \in 1..MaxConns :
            sent'[c] = IF c \in Range(connections) /\ readyState[c] = "OPEN"
                       THEN Append(sent[c], Ping)
                       ELSE sent[c]
       /\ UNCHANGED <<connections, readyState, activeConnectionId, pendingRequests,
                      timers, calls>>]_vars

\* a round has just pinged the second connection although the first, still tracked
\* and active, is closing; a call is pending
C15_Witness ==
  /\ last.op = "pingAll" /\ last.hit
  /\ Len(connections) = 2
  /\ readyState[connections[1]] = "CLOSING" /\ Pings(connections[1]) = 0
  /\ readyState[connections[2]] = "OPEN" /\ Pings(connections[2]) = 1
  /\ activeConnectionId = connections[1]
  /\ \E k \in 1..Len(calls) : IsPending(k) /\ ~Settled(k) /\ TimerOf(k) \in timers

\* C16: with the configured initial delay of 1000 ms, ceiling of 30000 ms and cap
\* of 10 attempts, the k-th reconnect scheduled in a run of failures is scheduled
\* after min(1000 * 2^(k-1), 30000) ms, for every k up to 10; so the delay never
\* exceeds 30000 ms and never decreases within the run, and the reconnect that is
\* scheduled at any moment is the latest of the run.
C16_Backoff ==
  /\ Len(scheduled) <= 10
  /\ \A k \in 1..Len(scheduled) :
       /\ scheduled[k] = Min(1000 * 2^(k - 1), 30000)
       /\ scheduled[k] <= 30000
       /\ k > 1 => scheduled[k] >= scheduled[k - 1]
  /\ client.timer # {} => (scheduled # <<>> /\ client.timer = {scheduled[Len(scheduled)]})

\* ten reconnects were scheduled in a row; the fifth after 16000 ms, the sixth and
\* the tenth after the ceiling of 30000 ms
C16_Witness ==
  /\ Len(scheduled) = 10
  /\ scheduled[5] = 16000 /\ scheduled[6] = 30000 /\ scheduled[10] = 30000
  /\ client.timer = {30000}

\* C17: once ten reconnects have been scheduled, no further reconnect is scheduled,
\* the only automatic attempt still made is the tenth scheduled one, and after it
\* has failed the client stays disconnected with nothing scheduled, whatever socket
\* events follow, until connect() is called.
C17_Budget ==
  [][/\ client'.attempts <= 10
     /\ (client.attempts >= 10) =>
          /\ client'.timer \subseteq client.timer
          /\ plast'.auto => client.timer # {}
          /\ (client.timer = {} /\ client.status = "disconnected") =>
                (client'.status = "disconnected" \/ plast'.op = "connect")]_vars

\* the tenth automatic attempt has just failed: the client is disconnected, was
\* not stopped, and nothing is scheduled
C17_Witness ==
  /\ plast.op = "close"
  /\ client.attempts = 10 /\ Len(scheduled) = 10
  /\ client.status = "disconnected" /\ client.timer = {} /\ ~client.stopped

\* C18: disconnect() (also when called by onDeactivate) leaves no reconnect
\* scheduled and the client disconnected; from then until connect() is called no
\* reconnect is scheduled and no automatic attempt is made, also when the close
\* event of the old socket is delivered; after deactivation that holds for good.
C18_Disconnect ==
  [][/\ (plast'.op \in {"disconnect", "onDeactivate"}) =>
          (client'.stopped /\ client'.timer = {} /\ client'.status = "disconnected")
     /\ (client.stopped /\ plast'.op # "connect") =>
          /\ client'.stopped /\ client'.timer = {} /\ client'.status = "disconnected"
          /\ ~plast'.auto /\ client'.socket = NULL
     /\ (~wsClient /\ plast.op # "init") =>
          (~wsClient' /\ client'.stopped /\ client'.timer = {} /\ ~plast'.auto)]_vars

\* the close event of the socket that disconnect() closed has just been delivered
\* to the stopped client, after reconnects had been scheduled
C18_Witness ==
  /\ plast.op = "close"
  /\ client.stopped /\ stale = {}
  /\ client.attempts >= 1 /\ client.attempts < 10
  /\ client.timer = {} /\ client.status = "disconnected"

C20_OneResponse ==
  [][/\ (plast'.op = "garbage") => (plast'.reply = <<>> /\ inflight' = inflight)
     /\ (plast'.op = "frame") =>
          \E g \in stale \cup {client.socket}, a \in PluginActions :
            LET request == [id |-> received + 1, action |-> a, sock |-> g] IN
            IF remAdapter /\ a \in KnownActions
            THEN /\ plast'.reply = <<>>
                 /\ request \notin inflight /\ inflight' = inflight \cup {request}
            ELSE /\ inflight' = inflight
                 /\ Len(plast'.reply) = 1
                 /\ plast'.reply[1].sock = g /\ plast'.reply[1].request = request
                 /\ plast'.reply[1].envelope =
                      [id |-> request.id,
                       error |-> IF ~remAdapter
                                 THEN <<"RemAdapter not initialized">>
                                 ELSE <<"Unknown action: ", a>>]
     /\ (plast'.op = "adapterReturns") =>
          \E request \in inflight :
            /\ inflight' = inflight \ {request}
            /\ Len(plast'.reply) = 1
            /\ plast'.reply[1].sock = request.sock /\ plast'.reply[1].request = request
            /\ \/ /\ plast'.reply[1].handler.kind = "returned"
                  /\ plast'.reply[1].envelope = [id |-> request.id, result |-> "note"]
               \/ /\ plast'.reply[1].handler.kind = "threw"
                  /\ plast'.reply[1].envelope =
                       [id |-> request.id, error |-> <<"adapter failed">>]
     /\ (plast'.op \notin {"frame", "adapterReturns"}) =>
          (plast'.reply = <<>> /\ inflight' = inflight)
     /\ \A r1, r2 \in inflight' : r1.id = r2.id => r1 = r2]_vars

\* a request that arrived after deactivation, on the socket that is closing, has
\* just been answered with 'RemAdapter not initialized' while an earlier request's
\* adapter call is still running
C20_Witness ==
  /\ plast.op = "frame" /\ Len(plast.reply) = 1
  /\ plast.reply[1].envelope = [id |-> 2, error |-> <<"RemAdapter not initialized">>]
  /\ plast.reply[1].sock \in stale
  /\ \E r \in inflight : r.id = 1 /\ r.sock = plast.reply[1].sock

\* ---------------------------------------------------------------------------
\* C21: Active-connection invariant. In every reachable state (hence after every
\* manager event) activeConnectionId is null or the id of a tracked connection,
\* it is non-null exactly when some connection is tracked, and
\* hasActiveConnection() is true exactly when at least one connection is tracked.
\* activeConnectionId is a single field, so at most one connection is active.
C21_ActiveInvariant ==
  /\ activeConnectionId = NULL \/ activeConnectionId \in Range(connections)
  /\ activeConnectionId # NULL <=> connections # <<>>
  /\ hasActiveConnection <=> Len(connections) >= 1
  /\ Cardinality({c \in Range(connections) : c = activeConnectionId}) <= 1

\* the active connection has closed while another one was tracked, and the
\* bridge has an active connection again
C21_Witness ==
  /\ last.op = "close"
  /\ last.hit
  /\ connections # <<>>
  /\ activeConnectionId \in Range(connections)
  /\ hasActiveConnection

\* C22: Pending-table/timer consistency. In every reachable state the id of a call
\* is in the pending table if and only if the call is unsettled, and if and only if
\* its deadline timer is armed; the table holds no key that is not the id of a
\* call, every entry's timer handle is armed and no armed timer is without its
\* entry. So after each exit path (matching response, timeout, write failure) the
\* entry is gone and the timer is no longer armed.
C22_TableTimerConsistency ==
  /\ \A k \in 1..Len(calls) :
       /\ IsPending(k) <=> ~Settled(k)
       /\ IsPending(k) <=> TimerOf(k) \in timers
  /\ \A id \in DOMAIN pendingRequests :
       /\ \E k \in 1..Len(calls) : calls[k].id = id
       /\ pendingRequests[id].timeout \in timers
  /\ \A t \in timers :
       /\ t.requestId \in DOMAIN pendingRequests
       /\ pendingRequests[t.requestId].timeout = t

\* the three exit paths next to a live entry: a call has just timed out or failed
\* on a closing connection or been answered, its entry and timer are gone, and
\* another call is still in the table with its timer armed
C22_Witness ==
  /\ last.op \in {"timeout", "sendRequest", "message"}
  /\ \E k \in 1..Len(calls) :
       /\ Settled(k) /\ KindOf(k) \in {"Timeout", "TransportNotReady", "result"}
       /\ calls[k].id # NULL /\ calls[k].id = last.id
       /\ ~IsPending(k) /\ TimerOf(k) \notin timers
  /\ \E j \in 1..Len(calls) : ~Settled(j) /\ IsPending(j) /\ TimerOf(j) \in timers

\* the tracked connection that registered first: identifiers are issued in
\* registration order, so it is the one with the smallest identifier
Earliest(tracked) == CHOOSE c \in tracked : \A d \in tracked : c <= d

\* C23: Deterministic promotion. When the active connection closes and others
\* remain, the connection promoted to active is the earliest-registered connection
\* still tracked; the tracked connections and their registration order are the
\* outcome of the register/close events alone, so the same events promote the same
\* connection.
C23_EarliestPromoted ==
  [][(last'.op = "close" /\ last'.hit /\ Len(connections) >= 2) =>
       /\ Range(connections') = Range(connections) \ {last'.conn}
       /\ activeConnectionId' = Earliest(Range(connections'))
       /\ \A i, j \in 1..Len(connections') :
            i < j => connections'[i] < connections'[j]]_vars

\* the active connection closed while two later ones were tracked, and the
\* earlier of the two is now active
C23_Witness ==
  /\ last.op = "close" /\ last.hit
  /\ Len(connections) = 2
  /\ last.conn < connections[1] /\ connections[1] < connections[2]
  /\ activeConnectionId = connections[1]

\* C24: the active connection id changes in two ways only: a registration while no
\* connection is active, and the close event of the connection that is active.
\* The close of a non-active connection, a registration while one is active,
\* sendRequest (its failure paths included), a response, a deadline timeout, a
\* socket starting to close and pingAll leave it unchanged; hasActiveConnection()
\* is a read of the state and is no step at all.
C24_ActiveFrame ==
  [][/\ (activeConnectionId' # activeConnectionId) =>
          \/ /\ last'.op = "addConnection" /\ activeConnectionId = NULL
             /\ activeConnectionId' = last'.conn
          \/ /\ last'.op = "close" /\ last'.conn = activeConnectionId
     /\ (last'.op = "close" /\ last'.conn # activeConnectionId) =>
          activeConnectionId' = activeConnectionId
     /\ (last'.op = "addConnection" /\ activeConnectionId # NULL) =>
          activeConnectionId' = activeConnectionId
     /\ (last'.op \in {"sendRequest", "message", "timeout", "pingAll", "closing"}) =>
          activeConnectionId' = activeConnectionId]_vars

\* a connection that was not the active one has just closed and the active one is
\* still active, with a call made on it
C24_Witness ==
  /\ last.op = "close" /\ ~last.hit
  /\ activeConnectionId # NULL /\ activeConnectionId \in Range(connections)
  /\ last.conn # activeConnectionId
  /\ \E k \in 1..Len(calls) : calls[k].conn = activeConnectionId

\* the Call Envelopes written to connection c, in the order they were written
RequestsOn(c) == SelectSeq(sent[c], LAMBDA e : "action" \in DOMAIN e)
\* the accepted calls whose envelope went to connection c, in the order they were made
CallsOn(c) == SelectSeq(calls, LAMBDA k : k.conn = c)

\* C25: each accepted sendRequest writes its Call Envelope to the connection that
\* is active at the moment of the call and to no other connection, and on every
\* connection the envelopes written are those of the calls made on it, in
\* the order in which the sendRequest calls were made.
C25_WriteOrder ==
  /\ [](\A c \in DOMAIN sent :
          /\ Len(RequestsOn(c)) = Len(CallsOn(c))
          /\ \A i \in 1..Len(CallsOn(c)) :
               RequestsOn(c)[i] = BridgeRequest(CallsOn(c)[i].id, CallsOn(c)[i].action))
  /\ [][(last'.op = "sendRequest" /\ last'.hit) =>
          /\ NewCall.conn = activeConnectionId
          /\ \A c \in DOMAIN sent :
               sent'[c] = IF c = activeConnectionId
                          THEN Append(sent[c], BridgeRequest(NewCall.id, NewCall.action))
                          ELSE sent[c]]_vars

\* two calls were accepted on the same connection while another connection was
\* tracked, which was written nothing but its acknowledgement
C25_Witness ==
  /\ last.op = "sendRequest" /\ last.hit
  /\ Len(CallsOn(last.conn)) = 2
  /\ RequestsOn(last.conn) = <<BridgeRequest(calls[1].id, calls[1].action),
                               BridgeRequest(calls[2].id, calls[2].action)>>
  /\ calls[1].id # calls[2].id
  /\ \E c \in Range(connections) : c # last.conn /\ sent[c] = <<Connected(c)>>

\* C26: response matching does not depend on the connection a response arrives
\* on. A response carrying the id of a pending call settles that call, and the
\* step is the same whichever tracked connection delivers it: the connection the
\* request was written to or another one, whether or not the request's connection
\* is still tracked or still the active one.
C26_AnyConnection ==
  [][(last'.op = "message" /\ last'.id \in DOMAIN pendingRequests) =>
       /\ \E k \in 1..Len(calls) :
            /\ calls[k].id = last'.id /\ ~Settled(k)
            /\ Len(calls'[k].settle) = 1 /\ calls'[k].settle[1].via = last'.id
            /\ last'.id \notin DOMAIN pendingRequests'
       /\ \A m \in Responses :
            (m.id = last'.id /\ \E c \in Range(connections) :
                                    onMessage(c, [json |-> TRUE, message |-> m]))
            => \A c \in Range(connections) :
                 onMessage(c, [json |-> TRUE, message |-> m])]_vars

\* a call was answered with a result after the connection it was written to had
\* closed: the response came in on the connection registered later
C26_Witness ==
  /\ last.op = "message" /\ last.hit
  /\ connections # <<>>
  /\ \E k \in 1..Len(calls) :
       /\ calls[k].id = last.id
       /\ calls[k].conn # NULL /\ calls[k].conn \notin Range(connections)
       /\ readyState[calls[k].conn] = "CLOSED"
       /\ activeConnectionId # calls[k].conn
       /\ Settled(k) /\ KindOf(k) = "result"

\* C27: timers are cleaned up on teardown. Taken for the teardown of a connection
\* in its narrowest sense: once a connection's close handler has run, no deadline
\* timer of a call written to that connection is still armed.
C27_TeardownClearsTimers ==
  [][(last'.op = "close") =>
       \A k \in 1..Len(calls) :
         (calls[k].conn = last'.conn) => TimerOf(k) \notin timers']_vars

\* the session counter that stands for an action, if it has one
CounterOf(action) ==
  CASE action = "create_note" -> "created"
    [] action = "update_note" -> "updated"
    [] action = "append_journal" -> "journal"
    [] action = "search" -> "searches"
    [] OTHER -> "none"

C30_StatusTool ==
  [][/\ (last'.op = "remnote_status") =>
          /\ ~hasActiveConnection
          /\ UNCHANGED <<calls, sent, pendingRequests, timers, reqCount>>
          /\ statusNotConnected.returned /\ ~statusNotConnected.connected
     /\ (last'.op = "sendRequest") =>
          /\ hasActiveConnection
          /\ calls' = Append(calls, NewCall)
          /\ NewCall.action = "get_status" /\ NewCall.id # NULL
          /\ NewCall.settle \in {<<>>, <<TransportNotReady>>}
          /\ \A c \in DOMAIN sent :
               \/ sent'[c] = sent[c]
               \/ /\ c = activeConnectionId /\ NewCall.settle = <<>>
                  /\ sent'[c] = Append(sent[c], BridgeRequest(NewCall.id, "get_status"))
     /\ \A k \in 1..Len(calls') :
          (Len(calls'[k].settle) = 1 /\ (k > Len(calls) \/ ~Settled(k))) =>
             LET outcome == calls'[k].settle[1]
                 r == statusResult(outcome) IN
             /\ outcome.kind \in {"result", "RemoteError", "Timeout", "TransportNotReady"}
             /\ r.returned
             /\ (outcome.kind # "result") =>
                   /\ ~r.connected
                   /\ r.text = <<"error">> \o errorMessage(outcome)]_vars

\* the tool was invoked three ways: its dispatch timed out, a later dispatch
\* failed on a closing connection, and with no connection left it has just
\* answered without dispatching
C30_Witness ==
  /\ last.op = "remnote_status"
  /\ connections = <<>>
  /\ Len(calls) = 2
  /\ \A k \in 1..2 : calls[k].action = "get_status" /\ Settled(k)
  /\ {KindOf(1), KindOf(2)} = {"Timeout", "TransportNotReady"}
  /\ \A c \in DOMAIN sent : Len(RequestsOn(c)) <= 1

\* C31: SSE session table. A session id is in the transports table only while its
\* transport is being established or is established and open: it is added by
\* GET /sse, removed when the transport closes, and not left behind when
\* establishing the session fails. POST /messages with no sessionId is answered
\* 400 and with a sessionId that is not in the table 404, and in both cases the
\* message is handed to no transport.
C31_SessionTable ==
  /\ [](\A s \in transports : sessions[s] \in {"starting", "open"})
  /\ [][/\ (transports' # transports) =>
             \/ slast'.op = "GET /sse" /\ transports' = transports \cup {slast'.session}
             \/ slast'.op = "onclose" /\ transports' = transports \ {slast'.session}
        /\ (slast'.op = "POST /messages" /\ slast'.session = NULL) =>
             slast'.status = 400 /\ slast'.delivered = NULL
        /\ (slast'.op = "POST /messages" /\ slast'.session # NULL
              /\ slast'.session \notin transports) =>
             slast'.status = 404 /\ slast'.delivered = NULL]_vars

\* the same statement without its clause about a failed establishment: an entry
\* is added by GET /sse alone and removed by the transport's close alone, and a
\* POST with no or an unknown sessionId is answered 400 or 404 and delivered nowhere
SessionTableApartFromFailure ==
  /\ [](\A s \in transports : sessions[s] \in {"starting", "open", "failed"})
  /\ [][/\ (transports' # transports) =>
             \/ slast'.op = "GET /sse" /\ transports' = transports \cup {slast'.session}
             \/ slast'.op = "onclose" /\ transports' = transports \ {slast'.session}
        /\ (slast'.op = "POST /messages" /\ slast'.session = NULL) =>
             slast'.status = 400 /\ slast'.delivered = NULL
        /\ (slast'.op = "POST /messages" /\ slast'.session # NULL
              /\ slast'.session \notin transports) =>
             slast'.status = 404 /\ slast'.delivered = NULL]_vars

====
